---- MODULE Spec2Model ----
(***************************************************************************)
(* A state-machine model of Creo2Urdf::OnCommand and of the functions it   *)
(* calls (src/src/creo2urdf/src/Creo2Urdf.cpp).                            *)
(*                                                                         *)
(* std::string values are sequences of characters, so that find, erase,    *)
(* replace, concatenation and tolower act on them as they do on strings.   *)
(* A YAML node that is not defined is the empty sequence <<>>; a defined   *)
(* node holding v is <<v>>.  std::map is a TLA+ function.  Doubles are     *)
(* integers.  A pose is a translation (an integer triple).                 *)
(***************************************************************************)
EXTENDS Integers, Sequences, FiniteSets, TLC

VARIABLES
    pc,                                \* where OnCommand stands
    runs,                              \* OnCommand invocations so far
    config,                            \* YAML::Node config (member)
    scale, originXYZ, originRPY,       \* members, std::array<double,3>
    exportAllUseradded,                \* member, bool
    joint_info_map,                    \* member, key -> JointInfo
    link_info_map,                     \* member, CAD name -> LinkInfo
    exported_frame_info_map,           \* member, csys name -> ExportedFrameInfo
    assigned_inertias_map,             \* member, link -> <<xx, yy, zz>>
    assigned_collision_geometry_map,   \* member, link -> CollisionGeometryInfo
    idyn_model,                        \* member, iDynTree::Model
    joints_csv_table,                  \* local, rapidcsv::Document
    sensorizer,                        \* local, Sensorizer
    ncomp,                             \* features traversed by the loop of line 87
    component_handle,                  \* local, the component of the current iteration
    jdone,                             \* keys the loop of line 147 has visited
    sdone,                             \* sensors the loop of line 227 has visited
    fdone,                             \* FT sensors the loop of line 237 has visited
    edone,                             \* exported frames the loop of line 258 has visited
    log,                               \* printToMessageWindow calls of this run
    outcome,                           \* how the current or last run ended
    urdf,                              \* what exportModelToUrdf wrote in this run
    reg,                               \* history: key -> components that registered it
    fin, fout                          \* input and result of a function applied alone

vars == <<pc, runs, config, scale, originXYZ, originRPY, exportAllUseradded,
          joint_info_map, link_info_map, exported_frame_info_map,
          assigned_inertias_map, assigned_collision_geometry_map, idyn_model,
          joints_csv_table, sensorizer, ncomp, component_handle, jdone, sdone,
          fdone, edone, log, outcome, urdf, reg, fin, fout>>

----------------------------------------------------------------------------
(* Bounds of the model *)

MaxRuns == 2
MaxComponents == 3

----------------------------------------------------------------------------
(* Strings *)

npos == -1

\* std::string::find: the first position (from 0) where t occurs in s, or npos
Find(s, t) ==
    LET hits == {i \in 0..(Len(s) - Len(t)) : SubSeq(s, i + 1, i + Len(t)) = t}
    IN  IF hits = {} THEN npos
        ELSE CHOOSE i \in hits : \A j \in hits : i <= j

\* std::string::erase(pos, len); pos = npos is out of range and throws
Erase(s, pos, len) ==
    SubSeq(s, 1, pos) \o SubSeq(s, pos + len + 1, Len(s))

\* std::string::replace(pos, len, t) with len reaching the end of s
ReplaceTail(s, pos, t) == SubSeq(s, 1, pos) \o t

\* the characters of names, in the order of their codes
Alphabet ==
    <<" ", "!", "#", "$", "%", "&", "(", ")", "*", "+", ",", "-", ".", "/",
      "0", "1", "2", "3", "4", "5", "6", "7", "8", "9", ":", ";", "<", "=", ">", "?",
      "@", "A", "B", "C", "D", "E", "F", "G", "H", "I", "J", "K", "L", "M", "N", "O",
      "P", "Q", "R", "S", "T", "U", "V", "W", "X", "Y", "Z", "[", "]", "^", "_",
      "a", "b", "c", "d", "e", "f", "g", "h", "i", "j", "k", "l", "m", "n", "o",
      "p", "q", "r", "s", "t", "u", "v", "w", "x", "y", "z", "{", "|", "}", "~">>

\* the position of the character c in Alphabet
Ord(c) == CHOOSE i \in DOMAIN Alphabet : Alphabet[i] = c

\* std::tolower on one character: the capitals A..Z move to a..z
LowerTok(c) ==
    IF Ord("A") <= Ord(c) /\ Ord(c) <= Ord("Z")
    THEN Alphabet[Ord(c) + (Ord("a") - Ord("A"))]
    ELSE c

\* std::string operator<, the order of the keys of a std::map
Less(s, t) ==
    \/ Len(s) < Len(t) /\ SubSeq(t, 1, Len(s)) = s
    \/ \E i \in 1..(IF Len(s) < Len(t) THEN Len(s) ELSE Len(t)) :
           /\ SubSeq(s, 1, i - 1) = SubSeq(t, 1, i - 1)
           /\ Ord(s[i]) < Ord(t[i])

\* the keys of a std::map in the order its iteration visits them
RECURSIVE SortedKeys(_)
SortedKeys(S) ==
    IF S = {} THEN <<>>
    ELSE LET m == CHOOSE x \in S : \A y \in S \ {x} : Less(x, y)
         IN  <<m>> \o SortedKeys(S \ {m})

ToLower(s) == [i \in 1..Len(s) |-> LowerTok(s[i])]

\* YAML::Node::IsDefined
IsDefined(node) == node # <<>>

\* a map lookup node[key] of a defined or undefined node
Sub(node, key) ==
    IF IsDefined(node) /\ key \in DOMAIN node[1] THEN <<node[1][key]>> ELSE <<>>

\* YAML::Node::Scalar: the empty string for a node that is not defined
Scalar(node) == IF IsDefined(node) THEN node[1] ELSE <<>>

\* the entries of a sequence node; none when the node is not defined
Entries(node) == IF IsDefined(node) THEN node[1] ELSE <<>>

EmptyMap == [k \in {} |-> 0]

Range(s) == {s[i] : i \in DOMAIN s}

----------------------------------------------------------------------------
(* The CAD assembly the host hands over: parts and what they carry *)

LA == <<"L", "A">>
LB == <<"L", "B">>
LC == <<"L", "C">>
LD == <<"L", "D">>
LE == <<"L", "E">>

K1 == <<"K", "1">>
K2 == <<"K", "2">>
CSYS == <<"C", "S", "Y", "S">>
ST == <<"X", "S", "C", "S", "Y", "S", "T">>
SU == <<"S", "C", "S", "Y", "S", "U">>

Tensor0 == <<<<4, 1, 2>>, <<1, 5, 3>>, <<2, 3, 6>>>>
Tensor1 == <<<<2, 0, 0>>, <<0, 2, 0>>, <<0, 0, 2>>>>

Axis(n, d) == [name |-> n, dir |-> d]

MkPart(n, ax, cs, p, t) ==
    [name |-> n, axes |-> ax, csys |-> cs, pos |-> p,
     mass |-> 3, com |-> <<1, 2, 0>>, tensor |-> t]

PartA == MkPart(LA, <<Axis(K1, <<0, 0, 1>>)>>, <<CSYS, ST>>, <<0, 0, 0>>, Tensor0)
PartB == MkPart(LB, <<Axis(K1, <<0, 0, 1>>), Axis(K2, <<0, 1, 0>>)>>, <<CSYS>>,
                <<1, 0, 0>>, Tensor1)
PartC == MkPart(LC, <<Axis(K2, <<0, 1, 0>>)>>, <<CSYS, SU>>, <<1, 2, 0>>, Tensor0)
PartD == MkPart(LD, <<Axis(K1, <<0, 0, 1>>)>>, <<ST, SU>>, <<0, 0, 3>>, Tensor1)
PartE == MkPart(LE, <<>>, <<CSYS>>, <<0, 4, 0>>, Tensor1)

Parts == {PartA, PartB, PartC, PartD, PartE}

----------------------------------------------------------------------------
(* Configuration documents and joint-limit tables *)

\* the joint name built at line 157
JointName(parent, child) == parent \o <<"-", "-">> \o child

RootSentinel == <<"S", "I", "M", "_", "E", "C", "U", "B", "_", "1", "-", "1", "_", "R", "O", "O", "T", "_", "L", "I", "N", "K">>

Rename0 == (LA :> <<"b", "a", "s", "e">>) @@ (JointName(LA, LB) :> <<"j", "_", "a", "b">>)
                @@ (RootSentinel :> <<"b", "a", "s", "e">>)
\* two joint names renamed to one
RenameDup == (JointName(LA, LB) :> <<"j">>) @@ (JointName(LB, LC) :> <<"j">>)

Frame(f, l, e) ==
    [frameName |-> f, frameReferenceLink |-> l, exportedFrameName |-> e,
     additionalTransformation |-> <<>>]

Sensor(l, e, x) == [linkName |-> l, exportedFrameName |-> e, exportFrameInURDF |-> x]

FT(e, x) == [sensorName |-> e, exportedFrameName |-> e, exportFrameInURDF |-> x]

LinkFrame(l, f) == [linkName |-> l, frameName |-> f]

\* a frame for every link; the one of link D is the parameter
LinkFrames(f) ==
    <<LinkFrame(LA, CSYS), LinkFrame(<<"b", "a", "s", "e">>, CSYS), LinkFrame(LB, CSYS),
      LinkFrame(LC, CSYS), LinkFrame(LD, f), LinkFrame(LE, CSYS)>>

\* the scalar of reverseRotationAxis: the names j_ab and LB--LC2, separated
ReversedNames == <<"j", "_", "a", "b", ",">> \o JointName(LB, LC) \o <<"2">>

Full ==
    [scale |-> << <<2, 1, 1>> >>,
     originXYZ |-> << <<1, 0, 0>> >>,
     originRPY |-> << <<0, 0, 1>> >>,
     exportAllUseradded |-> <<FALSE>>,
     rename |-> <<Rename0>>,
     linkFrames |-> <<LinkFrames(CSYS)>>,
     assignedMasses |-> <<(<<"b", "a", "s", "e">> :> 9)>>,
     assignedInertias |-> << <<[linkName |-> <<"b", "a", "s", "e">>, xx |-> 7, yy |-> 8, zz |-> 9]>> >>,
     assignedCollisionGeometry |->
         << <<[linkName |-> LB, shape |-> "box", origin |-> <<0, 0, 0>>]>> >>,
     exportedFrames |->
         << <<Frame(SU, <<"g", "h", "o", "s", "t">>, <<"l", "o", "s", "t">>), Frame(ST, <<"b", "a", "s", "e">>, <<"t", "o", "o", "l">>)>> >>,
     reverseRotationAxis |-> <<ReversedNames>>,
     robotName |-> << <<"r", "o", "b", "o", "t">> >>,
     root |-> << <<"b", "a", "s", "e">> >>,
     XMLBlobs |-> << << <<"b", "l", "o", "b">> >> >>,
     stringToRemoveFromMeshFileName |-> << <<"L">> >>,
     forcelowercase |-> <<TRUE>>,
     filenameformat |-> << <<"p", "a", "c", "k", "a", "g", "e", ":", "/", "/", "%", "s">> >>,
     assignedColors |-> <<(<<"b", "a", "s", "e">> :> <<10, 0, 0, 10>>)>>,
     sensors |->
         << <<Sensor(<<"g", "h", "o", "s", "t">>, <<"i", "m", "u", "0">>, TRUE), Sensor(<<"b", "a", "s", "e">>, <<"i", "m", "u">>, TRUE)>> >>,
     forceTorqueSensors |->
         <<(<<"j", "_", "n", "o", "n", "e">> :> FT(<<"f", "t", "0">>, TRUE)) @@ (<<"j", "_", "a", "b">> :> FT(<<"f", "t">>, TRUE))>>]

OptionalKeys ==
    {"scale", "originXYZ", "originRPY", "exportAllUseradded", "linkFrames",
     "assignedMasses", "assignedInertias", "assignedCollisionGeometry",
     "exportedFrames", "reverseRotationAxis", "XMLBlobs",
     "stringToRemoveFromMeshFileName", "forcelowercase", "filenameformat",
     "assignedColors"}

\* the document c with the keys ks left out
Without(c, ks) == [k \in DOMAIN c |-> IF k \in ks THEN <<>> ELSE c[k]]

\* a document with the required keys, forcelowercase and the link frames only
Minimal ==
    [Without(Full, DOMAIN Full \ {"robotName", "root", "rename", "forcelowercase"})
        EXCEPT !.linkFrames = <<LinkFrames(ST)>>]

\* the state of YAML::Node config before any document is loaded
NullConfig == Without(Full, DOMAIN Full)

Row(lo, hi) == [lower_limit |-> lo, upper_limit |-> hi, damping |-> 1, friction |-> 2]

CsvNames ==
    {<<"j", "_", "a", "b">>, <<"j">>} \cup
    {JointName(p.name, q.name) : p \in Parts, q \in Parts} \cup
    {JointName(<<"b", "a", "s", "e">>, q.name) : q \in Parts}

CsvFull == [n \in CsvNames |-> Row(-90, 90)]

----------------------------------------------------------------------------
(* Creo2Urdf::getRenameElementFromConfig and the readers of the tables *)

\* variant of getRenameElementFromConfig without the test of line 662: the
\* scalar of the looked-up node is returned whether or not it is defined
getRenameElementUnguarded(cfg, elem_name) == Scalar(Sub(cfg.rename, elem_name))

\* lines 660-672: the configured name, or the name itself
getRenameElementFromConfig(cfg, elem_name) ==
    IF IsDefined(Sub(cfg.rename, elem_name))
    THEN Scalar(Sub(cfg.rename, elem_name))
    ELSE elem_name

\* the warning of line 669
RenameWarn(cfg, elem_name) ==
    IF IsDefined(Sub(cfg.rename, elem_name)) THEN {}
    ELSE {<<"not present in the configuration file", elem_name>>}

\* std::map::insert: an existing key keeps its value
Insert(m, k, v) == IF k \in DOMAIN m THEN m ELSE m @@ (k :> v)

Identity == <<0, 0, 0>>

RECURSIVE InsertInertias(_, _, _)
InsertInertias(m, es, i) ==
    IF i > Len(es) THEN m
    ELSE InsertInertias(Insert(m, es[i].linkName, <<es[i].xx, es[i].yy, es[i].zz>>),
                        es, i + 1)

\* lines 465-473
readAssignedInertiasFromConfig(cfg, m) ==
    IF ~IsDefined(cfg.assignedInertias) THEN m
    ELSE InsertInertias(m, Entries(cfg.assignedInertias), 1)

RECURSIVE InsertCollisions(_, _, _)
InsertCollisions(m, es, i) ==
    IF i > Len(es) THEN m
    ELSE InsertCollisions(
             Insert(m, es[i].linkName,
                    [shape |-> es[i].shape, link_H_geometry |-> es[i].origin]),
             es, i + 1)

\* lines 475-504
readAssignedCollisionGeometryFromConfig(cfg, m) ==
    IF ~IsDefined(cfg.assignedCollisionGeometry) THEN m
    ELSE InsertCollisions(m, Entries(cfg.assignedCollisionGeometry), 1)

ExportedFrameInfo(ref, name, extra) ==
    [frameReferenceLink |-> ref, exportedFrameName |-> name,
     linkFrame_H_additionalFrame |-> <<"identity">>,
     additionalTransformation |-> extra]

RECURSIVE InsertFrames(_, _, _)
InsertFrames(m, es, i) ==
    IF i > Len(es) THEN m
    ELSE InsertFrames(
             Insert(m, es[i].frameName,
                    ExportedFrameInfo(
                        es[i].frameReferenceLink, es[i].exportedFrameName,
                        IF IsDefined(es[i].additionalTransformation)
                        THEN es[i].additionalTransformation[1] ELSE Identity)),
             es, i + 1)

\* lines 506-524
readExportedFramesFromConfig(cfg, exportAll, m) ==
    IF ~IsDefined(cfg.exportedFrames) \/ exportAll THEN m
    ELSE InsertFrames(m, Entries(cfg.exportedFrames), 1)

\* lines 81-84: what the Sensorizer reads from the document
readSensorsFromConfig(cfg) ==
    [sensors |-> Entries(cfg.sensors),
     ft_sensors |-> IF IsDefined(cfg.forceTorqueSensors)
                    THEN cfg.forceTorqueSensors[1] ELSE EmptyMap]

----------------------------------------------------------------------------
(* Creo2Urdf::computeSpatialInertiafromCreo, lines 328-358 *)

\* lines 333-343: the entry (i, j) of idyn_inertia_tensor
InertiaEntry(part, assigned, scl, link_name, i, j) ==
    IF link_name \in DOMAIN assigned /\ i = j
    THEN assigned[link_name][i]
    ELSE part.tensor[i][j] * scl[i] * scl[j]

computeSpatialInertiafromCreo(part, H, link_name, assigned, scl, cfg) ==
    [mass |-> IF IsDefined(Sub(cfg.assignedMasses, link_name))
              THEN Sub(cfg.assignedMasses, link_name)[1]
              ELSE part.mass,
     com |-> [i \in 1..3 |-> part.com[i] * scl[i] - H[i]],
     inertia |-> [i \in 1..3 |->
                    [j \in 1..3 |-> InertiaEntry(part, assigned, scl, link_name, i, j)]]]

\* iDynTree::SpatialInertia::isPhysicallyConsistent (line 130): the mass is
\* positive and the central second moments of mass are not negative, that is
\* twice their matrix, trace(I) - 2 I, has no negative principal minor
SecondMoments(I) ==
    [i \in 1..3 |->
        [j \in 1..3 |-> (IF i = j THEN I[1][1] + I[2][2] + I[3][3] ELSE 0) - 2 * I[i][j]]]

Minor(S, i, j) == S[i][i] * S[j][j] - S[i][j] * S[j][i]

Determinant(S) ==
    S[1][1] * (S[2][2] * S[3][3] - S[2][3] * S[3][2])
        - S[1][2] * (S[2][1] * S[3][3] - S[2][3] * S[3][1])
        + S[1][3] * (S[2][1] * S[3][2] - S[2][2] * S[3][1])

isPhysicallyConsistent(inertia) ==
    LET S == SecondMoments(inertia.inertia)
    IN  /\ inertia.mass > 0
        /\ \A i \in 1..3 : S[i][i] >= 0
        /\ \A i, j \in 1..3 : Minor(S, i, j) >= 0
        /\ Determinant(S) >= 0

\* the warning of lines 130-133
ConsistencyWarn(link_name, inertia) ==
    IF isPhysicallyConsistent(inertia) THEN {}
    ELSE {<<"is NOT physically consistent!", link_name>>}

----------------------------------------------------------------------------
(* Creo2Urdf::populateJointInfoMap, lines 360-419 *)

Marker == <<"S", "C", "S", "Y", "S">>
Suffix == <<"_", "U", "S", "E", "R", "A", "D", "D", "E", "D">>

\* lines 403 and 437: the name carries the fixed-joint marker
HasMarker(csys_name) == Find(csys_name, Marker) # npos

JointInfo(n, t, parent, child) ==
    [name |-> n, type |-> t, parent_link_name |-> parent, child_link_name |-> child]

\* lines 382-389 and 410-417: one registration of a key by a component
RegisterJoint(m, key, type, link_name) ==
    IF key \notin DOMAIN m
    THEN m @@ (key :> JointInfo(key, type, link_name, <<>>))
    ELSE [m EXCEPT ![key].child_link_name = link_name]

\* the registrations a component makes, in the order of the two loops
Registrations(part) ==
    [i \in 1..Len(part.axes) |-> [key |-> part.axes[i].name, type |-> "Revolute"]]
    \o
    [i \in 1..Len(SelectSeq(part.csys, HasMarker)) |->
        [key |-> SelectSeq(part.csys, HasMarker)[i], type |-> "Fixed"]]

RECURSIVE RegisterAll(_, _, _, _)
RegisterAll(m, rs, i, link_name) ==
    IF i > Len(rs) THEN m
    ELSE RegisterAll(RegisterJoint(m, rs[i].key, rs[i].type, link_name),
                     rs, i + 1, link_name)

populateJointInfoMap(m, part) == RegisterAll(m, Registrations(part), 1, part.name)

\* the warnings of lines 369 and 396
PartWarn(part) ==
    (IF Len(part.axes) = 0 THEN {<<"There is no AXIS in the part", part.name>>} ELSE {})
    \cup
    (IF Len(part.csys) = 0 THEN {<<"There is no CSYS in the part", part.name>>} ELSE {})

\* history: each registration of a key appends the registering component
RECURSIVE Registered(_, _, _, _)
Registered(h, rs, i, link_name) ==
    IF i > Len(rs) THEN h
    ELSE Registered(
             IF rs[i].key \in DOMAIN h
             THEN [h EXCEPT ![rs[i].key] = Append(@, link_name)]
             ELSE h @@ (rs[i].key :> <<link_name>>),
             rs, i + 1, link_name)

----------------------------------------------------------------------------
(* Creo2Urdf::populateExportedFrameInfoMap, lines 421-463 *)

\* variant of SkippedByBlanketExport with the comparison of line 437 inverted:
\* the coordinate systems that carry the marker are the ones passed over
SkippedWhenMarked(m, csys_name) ==
    HasMarker(csys_name) \/ csys_name \in DOMAIN m

\* line 437: the coordinate systems the blanket export passes over
SkippedByBlanketExport(m, csys_name) ==
    ~HasMarker(csys_name) \/ csys_name \in DOMAIN m

\* lines 455-459: the pose of the frame with respect to the link frame,
\* resolved in the component that carries the coordinate system
ResolvedFrame(part, csys_name, link_frame_name) ==
    <<"resolved", part.name, csys_name, link_frame_name>>

\* lines 434-461: one coordinate system of the component
ExportCsys(m, cfg, exportAll, part, link_frame_name, csys_name) ==
    IF exportAll /\ SkippedByBlanketExport(m, csys_name) THEN m
    ELSE LET m1 == IF exportAll
                   THEN Insert(m, csys_name,
                               ExportedFrameInfo(
                                   getRenameElementFromConfig(cfg, part.name),
                                   csys_name \o Suffix, Identity))
                   ELSE m
         IN  IF csys_name \in DOMAIN m1
             THEN [m1 EXCEPT ![csys_name].linkFrame_H_additionalFrame =
                                 ResolvedFrame(part, csys_name, link_frame_name)]
             ELSE m1

RECURSIVE ExportAllCsys(_, _, _, _, _, _)
ExportAllCsys(m, cfg, exportAll, part, link_frame_name, i) ==
    IF i > Len(part.csys) THEN m
    ELSE ExportAllCsys(
             ExportCsys(m, cfg, exportAll, part, link_frame_name, part.csys[i]),
             cfg, exportAll, part, link_frame_name, i + 1)

populateExportedFrameInfoMap(m, cfg, exportAll, part, links) ==
    ExportAllCsys(m, cfg, exportAll, part, links[part.name].link_frame_name, 1)

\* the warnings of line 442
ExportWarn(m, cfg, exportAll, part) ==
    IF exportAll
          /\ \E i \in 1..Len(part.csys) :
                HasMarker(part.csys[i]) /\ part.csys[i] \notin DOMAIN m
    THEN RenameWarn(cfg, part.name)
    ELSE {}

----------------------------------------------------------------------------
(* iDynTree::Model as OnCommand uses it *)

\* line 23: a fresh model
EmptyModel == [links |-> EmptyMap, order |-> <<>>, joints |-> EmptyMap, frames |-> EmptyMap]

\* iDynTree::Model::addLink (line 140): a used name adds nothing
addLink(mdl, name, link) ==
    IF name \in DOMAIN mdl.links THEN mdl
    ELSE [mdl EXCEPT !.links = @ @@ (name :> link), !.order = Append(@, name)]

\* iDynTree::Model::addJoint (lines 203 and 212): whether it returns a valid index
addJointOk(mdl, parent, child, joint_name) ==
    /\ parent \in DOMAIN mdl.links
    /\ child \in DOMAIN mdl.links
    /\ joint_name \notin DOMAIN mdl.joints
    /\ parent # child

addJoint(mdl, parent, child, joint_name, joint) ==
    IF addJointOk(mdl, parent, child, joint_name)
    THEN [mdl EXCEPT !.joints =
              @ @@ (joint_name :> ([parent |-> parent, child |-> child] @@ joint))]
    ELSE mdl

\* iDynTree::Model::isFrameNameUsed: a link or an additional frame has the name
isFrameNameUsed(mdl, name) == name \in DOMAIN mdl.links \cup DOMAIN mdl.frames

\* iDynTree::Model::addAdditionalFrameToLink (lines 229, 249 and 265)
addAdditionalFrameOk(mdl, link_name, frame_name) ==
    link_name \in DOMAIN mdl.links /\ ~isFrameNameUsed(mdl, frame_name)

addAdditionalFrameToLink(mdl, link_name, frame_name, from) ==
    IF addAdditionalFrameOk(mdl, link_name, frame_name)
    THEN [mdl EXCEPT !.frames = @ @@ (frame_name :> [link |-> link_name, from |-> from])]
    ELSE mdl

----------------------------------------------------------------------------
(* Creo2Urdf::addMeshAndExport, lines 526-636 *)

\* lines 537-541: erase throws std::out_of_range when the string is not found
MeshNameThrows(cfg, link_child_name) ==
    /\ IsDefined(cfg.stringToRemoveFromMeshFileName)
    /\ Find(link_child_name, Scalar(cfg.stringToRemoveFromMeshFileName)) = npos

MeshNameStripped(cfg, link_child_name) ==
    IF IsDefined(cfg.stringToRemoveFromMeshFileName)
    THEN Erase(link_child_name,
               Find(link_child_name, Scalar(cfg.stringToRemoveFromMeshFileName)),
               Len(Scalar(cfg.stringToRemoveFromMeshFileName)))
    ELSE link_child_name

\* line 544: as<bool>() of a node that is not defined throws
ForceLowerCaseThrows(cfg) == ~IsDefined(cfg.forcelowercase)

\* lines 537-548: the mesh file's base name
MeshName(cfg, link_child_name) ==
    IF cfg.forcelowercase[1]
    THEN ToLower(MeshNameStripped(cfg, link_child_name))
    ELSE MeshNameStripped(cfg, link_child_name)

\* lines 585-592
FileFormat(cfg) ==
    IF IsDefined(cfg.filenameformat) THEN Scalar(cfg.filenameformat) ELSE <<"%", "s">>

FileFormatThrows(cfg) == Find(FileFormat(cfg), <<"%", "s">>) = npos

MeshFile(cfg, link_child_name) ==
    ReplaceTail(FileFormat(cfg), Find(FileFormat(cfg), <<"%", "s">>),
                MeshName(cfg, link_child_name)) \o <<".", "s", "t", "l">>

\* lines 567-576
MeshColor(cfg, renamed) ==
    IF IsDefined(Sub(cfg.assignedColors, renamed))
    THEN Sub(cfg.assignedColors, renamed)[1]
    ELSE <<5, 5, 5, 10>>

\* whether addMeshAndExport leaves by an exception
addMeshAndExportThrows(cfg, part) ==
    \/ MeshNameThrows(cfg, part.name)
    \/ ForceLowerCaseThrows(cfg)
    \/ FileFormatThrows(cfg)

\* the exception it leaves by: the first one in the order of the lines
addMeshAndExportException(cfg, part) ==
    IF MeshNameThrows(cfg, part.name) THEN "OutOfRange"
    ELSE IF ForceLowerCaseThrows(cfg) THEN "BadConversion"
    ELSE "OutOfRange"

\* lines 596-632: the shapes added to the link
addMeshAndExport(mdl, cfg, part, scl, collisions) ==
    LET renamed == getRenameElementFromConfig(cfg, part.name)
        mesh == [shape |-> "mesh", file |-> MeshFile(cfg, part.name), scale |-> scl,
                 color |-> MeshColor(cfg, renamed)]
        coll == IF renamed \in DOMAIN collisions
                THEN IF collisions[renamed].shape = "none" THEN <<>>
                     ELSE <<[shape |-> collisions[renamed].shape,
                             link_H_geometry |-> collisions[renamed].link_H_geometry]>>
                ELSE <<mesh>>
    IN  [mdl EXCEPT !.links[renamed].collision = @ \o coll,
                    !.links[renamed].visual = Append(@, mesh)]

----------------------------------------------------------------------------
(* The documents a run may be given *)

CsvPartial == [n \in CsvNames \ {<<"j", "_", "a", "b">>} |-> Row(-90, 90)]

Configs ==
    {Full,
     Minimal,
     Without(Full, {"forcelowercase"}),
     Without(Minimal, {"robotName", "root", "rename"}),
     [Full EXCEPT !.exportAllUseradded = <<TRUE>>],
     [Minimal EXCEPT !.rename = <<RenameDup>>]}

Inputs ==
    {[yaml |-> c, csv |-> CsvFull] : c \in Configs}
    \cup {[yaml |-> Full, csv |-> CsvPartial]}

----------------------------------------------------------------------------
(* State after construction *)

DefaultScale == <<1, 1, 1>>
DefaultOrigin == <<0, 0, 0>>

NoSensors == [sensors |-> <<>>, ft_sensors |-> EmptyMap]

Init ==
    /\ pc = "idle"
    /\ runs = 0
    /\ config = NullConfig
    /\ scale = DefaultScale
    /\ originXYZ = DefaultOrigin
    /\ originRPY = DefaultOrigin
    /\ exportAllUseradded = FALSE
    /\ joint_info_map = EmptyMap
    /\ link_info_map = EmptyMap
    /\ exported_frame_info_map = EmptyMap
    /\ assigned_inertias_map = EmptyMap
    /\ assigned_collision_geometry_map = EmptyMap
    /\ idyn_model = EmptyModel
    /\ joints_csv_table = EmptyMap
    /\ sensorizer = NoSensors
    /\ ncomp = 0
    /\ component_handle = <<>>
    /\ jdone = {}
    /\ sdone = 0
    /\ fdone = {}
    /\ edone = {}
    /\ log = {}
    /\ outcome = "none"
    /\ urdf = <<>>
    /\ reg = EmptyMap
    /\ fin = <<>>
    /\ fout = <<>>

----------------------------------------------------------------------------
(* Creo2Urdf::OnCommand, lines 12-59: from the click to the clearing step *)

Idle == pc \in {"idle", "done"}

members == <<scale, originXYZ, originRPY, exportAllUseradded>>
tables == <<joint_info_map, link_info_map, exported_frame_info_map,
            assigned_inertias_map, assigned_collision_geometry_map>>
loops == <<ncomp, component_handle, jdone, sdone, fdone, edone>>
alone == <<fin, fout>>

\* the locals of a fresh invocation
FreshLocals ==
    /\ runs' = runs + 1
    /\ sensorizer' = NoSensors
    /\ ncomp' = 0
    /\ component_handle' = <<>>
    /\ jdone' = {}
    /\ sdone' = 0
    /\ fdone' = {}
    /\ edone' = {}
    /\ urdf' = <<>>
    /\ reg' = EmptyMap

\* line 25
YamlPrompt == {<<"Please select the .yaml configuration file", <<>>>>}

\* lines 644-652: what loadYamlConfig prints when it returns false
LoadFailure ==
    {<<"Configuration file does not exist!", <<>>>>, <<"YAML::ParserException msg", <<>>>>}

\* lines 25-35: what a run has printed when both files are read
Prologue ==
    YamlPrompt \cup {<<"Configuration file was loaded successfully", <<>>>>,
                     <<"Please select the .csv configuration file", <<>>>>}

\* lines 23-33: the document cannot be loaded
LoadFails ==
    /\ Idle
    /\ runs < MaxRuns
    /\ FreshLocals
    /\ idyn_model' = EmptyModel
    /\ \E why \in LoadFailure :
          log' = YamlPrompt \cup {why, <<"Failed to run Creo2Urdf!", <<>>>>}
    /\ outcome' = "LoadFailed"
    /\ pc' = "done"
    /\ joints_csv_table' = EmptyMap
    /\ UNCHANGED <<config, members, tables, alone>>

\* lines 23-50: the assembly has no feature
NoFeatures ==
    /\ Idle
    /\ runs < MaxRuns
    /\ \E inp \in Inputs :
          /\ config' = inp.yaml
          /\ joints_csv_table' = inp.csv
    /\ FreshLocals
    /\ idyn_model' = EmptyModel
    /\ log' = Prologue \cup {<<"There are no FEATURES in the asm", <<>>>>}
    /\ outcome' = "NoFeatures"
    /\ pc' = "done"
    /\ UNCHANGED <<members, tables, alone>>

\* lines 52-59: the clearing step
ClearedTables(jm, lm, em, im, cm) ==
    IF Cardinality(DOMAIN jm) > 0
    THEN <<EmptyMap, EmptyMap, EmptyMap, EmptyMap, EmptyMap>>
    ELSE <<jm, lm, em, im, cm>>

\* lines 23-59: the document is loaded and the tables are cleared
Begin ==
    /\ Idle
    /\ runs < MaxRuns
    /\ \E inp \in Inputs :
          /\ config' = inp.yaml
          /\ joints_csv_table' = inp.csv
    /\ FreshLocals
    /\ idyn_model' = EmptyModel
    /\ LET t == ClearedTables(joint_info_map, link_info_map, exported_frame_info_map,
                               assigned_inertias_map, assigned_collision_geometry_map)
       IN  /\ joint_info_map' = t[1]
           /\ link_info_map' = t[2]
           /\ exported_frame_info_map' = t[3]
           /\ assigned_inertias_map' = t[4]
           /\ assigned_collision_geometry_map' = t[5]
    /\ log' = Prologue
    /\ outcome' = "running"
    /\ pc' = "cleared"
    /\ UNCHANGED <<members, alone>>

----------------------------------------------------------------------------
(* Lines 61-84: the options and the tables read from the document *)

Option(node, old) == IF IsDefined(node) THEN node[1] ELSE old

ReadConfig ==
    /\ pc = "cleared"
    /\ scale' = Option(config.scale, scale)
    /\ originXYZ' = Option(config.originXYZ, originXYZ)
    /\ originRPY' = Option(config.originRPY, originRPY)
    /\ exportAllUseradded' = Option(config.exportAllUseradded, exportAllUseradded)
    /\ exported_frame_info_map' =
          readExportedFramesFromConfig(config, exportAllUseradded', exported_frame_info_map)
    /\ assigned_inertias_map' = readAssignedInertiasFromConfig(config, assigned_inertias_map)
    /\ assigned_collision_geometry_map' =
          readAssignedCollisionGeometryFromConfig(config, assigned_collision_geometry_map)
    /\ sensorizer' = readSensorsFromConfig(config)
    /\ pc' = "traverse"
    /\ UNCHANGED <<runs, config, joint_info_map, link_info_map, idyn_model,
                   joints_csv_table, loops, log, outcome, urdf, reg, alone>>

----------------------------------------------------------------------------
(* Lines 87-142: one component of the traversal *)

\* lines 109-117: the frame configured for the link; the last entry wins
LinkFrameName(cfg, urdf_link_name) ==
    LET es == Entries(cfg.linkFrames)
        hits == {i \in DOMAIN es : es[i].linkName = urdf_link_name}
    IN  IF hits = {} THEN <<>>
        ELSE es[CHOOSE i \in hits : \A j \in hits : j <= i].frameName

\* line 118: the pose of the component in the root, as the host resolves it
getTransformFromRootToChild(part, link_frame_name, scl) ==
    [ret |-> link_frame_name \in Range(part.csys),
     H |-> [i \in 1..3 |-> part.pos[i] * scl[i]]]

LinkInfo(urdf_link_name, part, H, link_frame_name) ==
    [urdf_link_name |-> urdf_link_name, modelhdl |-> part, root_H_link |-> H,
     link_frame_name |-> link_frame_name]

Component(part) ==
    LET urdf_link_name == getRenameElementFromConfig(config, part.name)
        link_frame_name == LinkFrameName(config, urdf_link_name)
        tf == getTransformFromRootToChild(part, link_frame_name, scale)
        link == [inertia |-> computeSpatialInertiafromCreo(
                                 part, tf.H, urdf_link_name, assigned_inertias_map,
                                 scale, config),
                 collision |-> <<>>, visual |-> <<>>]
        links == Insert(link_info_map, part.name,
                        LinkInfo(urdf_link_name, part, tf.H, link_frame_name))
        added == addLink(idyn_model, urdf_link_name, link)
    IN  /\ pc = "traverse"
        /\ ncomp < MaxComponents
        /\ ncomp' = ncomp + 1
        /\ component_handle' = <<part>>
        /\ IF ~tf.ret
           THEN \* line 122
                /\ pc' = "done"
                /\ outcome' = "TransformFailed"
                /\ log' = log \cup RenameWarn(config, part.name)
                /\ UNCHANGED <<tables, idyn_model, reg>>
           ELSE /\ link_info_map' = links
                /\ joint_info_map' = populateJointInfoMap(joint_info_map, part)
                /\ reg' = Registered(reg, Registrations(part), 1, part.name)
                /\ exported_frame_info_map' =
                      populateExportedFrameInfoMap(exported_frame_info_map, config,
                                                   exportAllUseradded, part, links)
                /\ log' = log \cup RenameWarn(config, part.name)
                              \cup ConsistencyWarn(part.name, link.inertia)
                              \cup PartWarn(part)
                              \cup ExportWarn(exported_frame_info_map, config,
                                              exportAllUseradded, part)
                /\ UNCHANGED <<assigned_inertias_map, assigned_collision_geometry_map>>
                /\ IF addMeshAndExportThrows(config, part)
                   THEN /\ idyn_model' = added
                        /\ pc' = "done"
                        /\ outcome' = addMeshAndExportException(config, part)
                   ELSE /\ idyn_model' = addMeshAndExport(
                                             added, config, part, scale,
                                             assigned_collision_geometry_map)
                        /\ pc' = "traverse"
                        /\ outcome' = outcome
        /\ UNCHANGED <<runs, config, members, joints_csv_table, sensorizer,
                       jdone, sdone, fdone, edone, urdf, alone>>

\* line 87: the list of features is exhausted
EndTraverse ==
    /\ pc = "traverse"
    /\ pc' = "joints"
    /\ UNCHANGED <<runs, config, members, tables, idyn_model, joints_csv_table,
                   sensorizer, loops, log, outcome, urdf, reg, alone>>

----------------------------------------------------------------------------
(* Lines 147-218: one joint candidate *)

\* deg2rad of lines 189-190, in microradians per degree
deg2rad == 17453

Negated(v) == [i \in 1..3 |-> 0 - v[i]]

\* line 174: the axis of the name in the parent's part, as the host reports it
getRotationAxisFromPart(part, axis_name) ==
    LET hits == {i \in DOMAIN part.axes : part.axes[i].name = axis_name}
    IN  IF hits = {} THEN [ret |-> FALSE, axis |-> <<0, 0, 0>>]
        ELSE [ret |-> TRUE, axis |-> part.axes[CHOOSE i \in hits : TRUE].dir]

\* lines 181-184
ReverseAxis(cfg, joint_name) ==
    Find(Scalar(cfg.reverseRotationAxis), joint_name) # npos

\* lines 189-198: GetCell throws when the table has no row of the name
CsvThrows(csv, joint_name) == joint_name \notin DOMAIN csv

\* lines 157-217: what becomes of a candidate that has both endpoints
CompleteOutcome(key, jm, lm, mdl, cfg, csv) ==
    LET parent == jm[key].parent_link_name
        child == jm[key].child_link_name
        joint_name == getRenameElementFromConfig(cfg, JointName(parent, child))
        addable == addJointOk(mdl, getRenameElementFromConfig(cfg, parent),
                              getRenameElementFromConfig(cfg, child), joint_name)
    IN  IF jm[key].type = "Revolute"
        THEN IF ~getRotationAxisFromPart(lm[parent].modelhdl, jm[key].name).ret
             THEN "AxisFailed"
             ELSE IF CsvThrows(csv, joint_name) THEN "OutOfRange"
             ELSE IF addable THEN "added" ELSE "JointFailed"
        ELSE IF addable THEN "added" ELSE "JointFailed"

\* variant of JointOutcome: a candidate without child ends the run
\* (a `return` in place of the `continue` of line 154)
JointOutcomeReturnsOnDangling(key, jm, lm, mdl, cfg, csv) ==
    IF jm[key].child_link_name = <<>> THEN "JointFailed"
    ELSE CompleteOutcome(key, jm, lm, mdl, cfg, csv)

\* variant of JointOutcome: a failed addJoint is passed over
\* (a `continue` in place of the `return` of lines 207 and 215)
JointOutcomeContinuesOnFailure(key, jm, lm, mdl, cfg, csv) ==
    IF jm[key].child_link_name = <<>> THEN "skipped"
    ELSE IF CompleteOutcome(key, jm, lm, mdl, cfg, csv) = "JointFailed" THEN "skipped"
    ELSE CompleteOutcome(key, jm, lm, mdl, cfg, csv)

\* variant of JointOutcome: a missing row of the limits table is passed over
\* (the exception of GetCell caught inside the loop body)
JointOutcomeContinuesOnMissingRow(key, jm, lm, mdl, cfg, csv) ==
    IF jm[key].child_link_name = <<>> THEN "skipped"
    ELSE IF CompleteOutcome(key, jm, lm, mdl, cfg, csv) = "OutOfRange" THEN "skipped"
    ELSE CompleteOutcome(key, jm, lm, mdl, cfg, csv)

\* lines 153-155 and on: what the iteration of line 147 does with a candidate
JointOutcome(key, jm, lm, mdl, cfg, csv) ==
    IF jm[key].child_link_name = <<>> THEN "skipped"
    ELSE CompleteOutcome(key, jm, lm, mdl, cfg, csv)

\* lines 186-201 and 211: the joint handed to addJoint
JointOf(key, jm, lm, cfg, csv) ==
    LET parent == jm[key].parent_link_name
        child == jm[key].child_link_name
        joint_name == getRenameElementFromConfig(cfg, JointName(parent, child))
        parent_H_child == [i \in 1..3 |->
                              lm[child].root_H_link[i] - lm[parent].root_H_link[i]]
        axis == getRotationAxisFromPart(lm[parent].modelhdl, jm[key].name).axis
    IN  IF jm[key].type = "Revolute"
        THEN [type |-> "Revolute", key |-> key, parent_H_child |-> parent_H_child,
              axis |-> IF ReverseAxis(cfg, joint_name) THEN Negated(axis) ELSE axis,
              limits |-> <<csv[joint_name].lower_limit * deg2rad,
                           csv[joint_name].upper_limit * deg2rad>>,
              damping |-> csv[joint_name].damping,
              friction |-> csv[joint_name].friction]
        ELSE [type |-> "Fixed", key |-> key, parent_H_child |-> parent_H_child]

JointStep(key) ==
    LET parent == joint_info_map[key].parent_link_name
        child == joint_info_map[key].child_link_name
        joint_name == getRenameElementFromConfig(config, JointName(parent, child))
        what == JointOutcome(key, joint_info_map, link_info_map, idyn_model, config,
                             joints_csv_table)
    IN  /\ pc = "joints"
        /\ key \in DOMAIN joint_info_map \ jdone
        /\ jdone' = jdone \cup {key}
        /\ IF what = "skipped"
           THEN UNCHANGED <<pc, outcome, log, idyn_model>>
           ELSE IF what = "added"
           THEN /\ idyn_model' =
                      addJoint(idyn_model, getRenameElementFromConfig(config, parent),
                               getRenameElementFromConfig(config, child), joint_name,
                               JointOf(key, joint_info_map, link_info_map, config,
                                       joints_csv_table))
                /\ log' = log \cup RenameWarn(config, JointName(parent, child))
                              \cup RenameWarn(config, parent) \cup RenameWarn(config, child)
                /\ UNCHANGED <<pc, outcome>>
           ELSE /\ pc' = "done"
                /\ outcome' = what
                /\ log' = log \cup RenameWarn(config, JointName(parent, child))
                              \cup (IF what = "JointFailed"
                                    THEN RenameWarn(config, parent)
                                         \cup RenameWarn(config, child)
                                         \cup {<<"FAILED TO ADD JOINT", joint_name>>}
                                    ELSE {})
                /\ UNCHANGED idyn_model
        /\ UNCHANGED <<runs, config, members, tables, joints_csv_table, sensorizer,
                       ncomp, component_handle, sdone, fdone, edone, urdf, reg, alone>>

\* lines 220-223: every candidate has been visited
EndJoints ==
    /\ pc = "joints"
    /\ DOMAIN joint_info_map \subseteq jdone
    /\ pc' = "frames"
    /\ UNCHANGED <<runs, config, members, tables, idyn_model, joints_csv_table,
                   sensorizer, loops, log, outcome, urdf, reg, alone>>

----------------------------------------------------------------------------
(* Lines 227-270: sensor, FT-sensor and exported frames *)

FrameWarn(name) == {<<"Failed to add additional frame", name>>}

\* lines 227-235: the next sensor of the vector
SensorStep ==
    LET sensor == sensorizer.sensors[sdone + 1]
    IN  /\ pc = "frames"
        /\ sdone < Len(sensorizer.sensors)
        /\ sdone' = sdone + 1
        /\ IF sensor.exportFrameInURDF
           THEN /\ idyn_model' = addAdditionalFrameToLink(
                                     idyn_model, sensor.linkName,
                                     sensor.exportedFrameName, <<"sensor", sdone + 1>>)
                /\ log' = IF addAdditionalFrameOk(idyn_model, sensor.linkName,
                                                  sensor.exportedFrameName)
                          THEN log ELSE log \cup FrameWarn(sensor.exportedFrameName)
           ELSE UNCHANGED <<idyn_model, log>>
        /\ UNCHANGED <<pc, runs, config, members, tables, joints_csv_table, sensorizer,
                       ncomp, component_handle, jdone, fdone, edone, outcome, urdf,
                       reg, alone>>

\* lines 237-255: one FT sensor, keyed by the name of its joint
FTSensorStep(joint_name) ==
    LET ft == sensorizer.ft_sensors[joint_name]
        link_name == idyn_model.joints[joint_name].parent
    IN  /\ pc = "frames"
        /\ sdone = Len(sensorizer.sensors)
        /\ joint_name \in DOMAIN sensorizer.ft_sensors \ fdone
        /\ fdone' = fdone \cup {joint_name}
        /\ IF ~ft.exportFrameInURDF
           THEN UNCHANGED <<idyn_model, log>>
           ELSE IF joint_name \notin DOMAIN idyn_model.joints
           THEN /\ log' = log \cup {<<"Failed to add additional frame, ftsensor is not in the model",
                                      ft.sensorName>>}
                /\ UNCHANGED idyn_model
           ELSE /\ idyn_model' = addAdditionalFrameToLink(
                                     idyn_model, link_name, ft.exportedFrameName,
                                     <<"ft", joint_name>>)
                /\ log' = IF addAdditionalFrameOk(idyn_model, link_name,
                                                  ft.exportedFrameName)
                          THEN log ELSE log \cup FrameWarn(ft.exportedFrameName)
        /\ UNCHANGED <<pc, runs, config, members, tables, joints_csv_table, sensorizer,
                       ncomp, component_handle, jdone, sdone, edone, outcome, urdf,
                       reg, alone>>

\* variant of ReferenceLinkMissing with the comparison of line 260 inverted
ReferenceLinkPresent(mdl, reference_link) == reference_link \in DOMAIN mdl.links

\* line 260: the reference link is not a link of the model
ReferenceLinkMissing(mdl, reference_link) == reference_link \notin DOMAIN mdl.links

\* lines 258-270: one entry of the exported-frame table
ExportedFrameStep(key) ==
    LET info == exported_frame_info_map[key]
        reference_link == info.frameReferenceLink
    IN  /\ pc = "frames"
        /\ sdone = Len(sensorizer.sensors)
        /\ DOMAIN sensorizer.ft_sensors \subseteq fdone
        /\ key \in DOMAIN exported_frame_info_map \ edone
        /\ edone' = edone \cup {key}
        /\ IF ReferenceLinkMissing(idyn_model, reference_link)
           THEN /\ log' = log \cup {<<"Failed to add additional frame, link is not in the model",
                                      reference_link>>}
                /\ UNCHANGED idyn_model
           ELSE /\ idyn_model' = addAdditionalFrameToLink(
                                     idyn_model, reference_link, info.exportedFrameName,
                                     <<"exported", key>>)
                /\ log' = IF addAdditionalFrameOk(idyn_model, reference_link,
                                                  info.exportedFrameName)
                          THEN log ELSE log \cup FrameWarn(info.exportedFrameName)
        /\ UNCHANGED <<pc, runs, config, members, tables, joints_csv_table, sensorizer,
                       ncomp, component_handle, jdone, sdone, fdone, outcome, urdf,
                       reg, alone>>

----------------------------------------------------------------------------
(* Lines 272-326: the export *)

\* lines 276-299: the options handed to the exporter
\* Sensorizer::buildFTXMLBlobs (line 293): a fragment for each FT sensor
buildFTXMLBlobs(s) ==
    LET ks == SortedKeys(DOMAIN s.ft_sensors)
    IN  [i \in 1..Len(ks) |-> <<"ftblob", ks[i]>>]

\* Sensorizer::buildSensorsXMLBlobs (line 294): a fragment for each sensor
buildSensorsXMLBlobs(s) ==
    [i \in 1..Len(s.sensors) |-> <<"sensorblob", s.sensors[i].exportedFrameName>>]

ExportOptions(cfg, xyz, rpy, s) ==
    [robotExportedName |-> Scalar(cfg.robotName),
     baseLink |-> IF IsDefined(cfg.root) THEN Scalar(cfg.root)
                  ELSE Scalar(Sub(cfg.rename, RootSentinel)),
     xmlBlobs |-> (IF IsDefined(cfg.XMLBlobs)
                   THEN Append(cfg.XMLBlobs[1], <<"gazebo pose", xyz, rpy>>)
                   ELSE <<>>)
                  \o buildFTXMLBlobs(s) \o buildSensorsXMLBlobs(s)]

\* the links joined to the given ones by a joint
Neighbours(mdl, ls) ==
    ls \cup {mdl.joints[j].child : j \in {k \in DOMAIN mdl.joints : mdl.joints[k].parent \in ls}}
       \cup {mdl.joints[j].parent : j \in {k \in DOMAIN mdl.joints : mdl.joints[k].child \in ls}}

RECURSIVE Reachable(_, _)
Reachable(mdl, ls) ==
    IF Neighbours(mdl, ls) = ls THEN ls ELSE Reachable(mdl, Neighbours(mdl, ls))

\* iDynTree::ModelExporter::isValid after init (line 312): init takes any model
isValid(mdl) == TRUE

\* lines 318-322: the exporter writes the file
ExportOk(mdl, options) ==
    /\ Len(mdl.order) > 0
    /\ options.baseLink = <<>> \/ options.baseLink \in DOMAIN mdl.links
    /\ LET base == IF options.baseLink = <<>> THEN mdl.order[1] ELSE options.baseLink
       IN  Reachable(mdl, {base}) = DOMAIN mdl.links

\* lines 272-303: the three loops are over
Export ==
    LET options == ExportOptions(config, originXYZ, originRPY, sensorizer)
    IN  /\ pc = "frames"
        /\ sdone = Len(sensorizer.sensors)
        /\ DOMAIN sensorizer.ft_sensors \subseteq fdone
        /\ DOMAIN exported_frame_info_map \subseteq edone
        /\ IF ~isValid(idyn_model)
           THEN /\ urdf' = <<>>
                /\ outcome' = "ExportFailed"
                /\ log' = log \cup {<<"Model is not valid!", <<>>>>}
           ELSE IF ExportOk(idyn_model, options)
           THEN /\ urdf' = <<[options |-> options, model |-> idyn_model]>>
                /\ outcome' = "Exported"
                /\ log' = log \cup {<<"Urdf created successfully!", <<>>>>}
           ELSE /\ urdf' = <<>>
                /\ outcome' = "ExportFailed"
                /\ log' = log \cup {<<"Error exporting the urdf", <<>>>>}
        /\ pc' = "done"
        /\ UNCHANGED <<runs, config, members, tables, idyn_model, joints_csv_table,
                       sensorizer, loops, reg, alone>>

----------------------------------------------------------------------------
(* The specification of repeated invocations of OnCommand *)

Next ==
    \/ LoadFails
    \/ NoFeatures
    \/ Begin
    \/ ReadConfig
    \/ \E part \in Parts : Component(part)
    \/ EndTraverse
    \/ \E key \in DOMAIN joint_info_map : JointStep(key)
    \/ EndJoints
    \/ SensorStep
    \/ \E joint_name \in DOMAIN sensorizer.ft_sensors : FTSensorStep(joint_name)
    \/ \E key \in DOMAIN exported_frame_info_map : ExportedFrameStep(key)
    \/ Export

Spec == Init /\ [][Next]_vars

----------------------------------------------------------------------------
(* computeSpatialInertiafromCreo and getRenameElementFromConfig on their own:
   the members they read are drawn from bounded sets, the argument is in fin
   and the value returned is put in fout *)

\* the largest entry of a tensor reported by the CAD
MaxCad == 2

\* the symmetric tensors with diagonal d and off-diagonal entries up to MaxCad
CadTensors ==
    {<<<<d, a, b>>, <<a, d, c>>, <<b, c, d>>>> :
        d \in {MaxCad + 1}, a \in 0..MaxCad, b \in 0..1, c \in 0..1}

Scales == {<<1, 1, 1>>, <<2, 1, 1>>, <<1, 2, 3>>}

\* the override tables that readAssignedInertiasFromConfig builds
AssignedTables ==
    {readAssignedInertiasFromConfig(Full, EmptyMap),
     readAssignedInertiasFromConfig(Minimal, EmptyMap)}

Names == {<<"a">>, <<"b">>, <<"c">>}

\* every rename table over Names
RenameTables == UNION {[ks -> Names] : ks \in SUBSET Names}

RenameConfigs ==
    {NullConfig} \cup {[NullConfig EXCEPT !.rename = <<t>>] : t \in RenameTables}

InitAlone ==
    /\ pc = "alone"
    /\ runs = 0
    /\ \/ /\ fin \in {[op |-> "inertia", link_name |-> l,
                        part |-> MkPart(LA, <<>>, <<CSYS>>, <<0, 0, 0>>, t)] :
                           l \in {<<"b", "a", "s", "e">>, LA}, t \in CadTensors}
          /\ config \in {Full, Minimal}
          /\ scale \in Scales
          /\ assigned_inertias_map \in AssignedTables
       \/ /\ fin \in {[op |-> "rename", name |-> n] : n \in Names}
          /\ config \in RenameConfigs
          /\ scale = DefaultScale
          /\ assigned_inertias_map = EmptyMap
    /\ fout = <<>>
    /\ originXYZ = DefaultOrigin
    /\ originRPY = DefaultOrigin
    /\ exportAllUseradded = FALSE
    /\ joint_info_map = EmptyMap
    /\ link_info_map = EmptyMap
    /\ exported_frame_info_map = EmptyMap
    /\ assigned_collision_geometry_map = EmptyMap
    /\ idyn_model = EmptyModel
    /\ joints_csv_table = EmptyMap
    /\ sensorizer = NoSensors
    /\ ncomp = 0
    /\ component_handle = <<>>
    /\ jdone = {}
    /\ sdone = 0
    /\ fdone = {}
    /\ edone = {}
    /\ log = {}
    /\ outcome = "none"
    /\ urdf = <<>>
    /\ reg = EmptyMap

\* lines 328-358: one call of computeSpatialInertiafromCreo
ApplyInertia ==
    /\ pc = "alone"
    /\ fin.op = "inertia"
    /\ fout = <<>>
    /\ fout' = <<computeSpatialInertiafromCreo(fin.part, Identity, fin.link_name,
                                               assigned_inertias_map, scale, config)>>
    /\ UNCHANGED <<pc, runs, config, members, tables, idyn_model, joints_csv_table,
                   sensorizer, loops, log, outcome, urdf, reg, fin>>

\* lines 660-672: getRenameElementFromConfig, and again on what it returned
ApplyRename ==
    /\ pc = "alone"
    /\ fin.op = "rename"
    /\ fout = <<>>
    /\ fout' = <<getRenameElementFromConfig(config, fin.name),
                 getRenameElementFromConfig(
                     config, getRenameElementFromConfig(config, fin.name))>>
    /\ log' = log \cup RenameWarn(config, fin.name)
                  \cup RenameWarn(config, getRenameElementFromConfig(config, fin.name))
    /\ UNCHANGED <<pc, runs, config, members, tables, idyn_model, joints_csv_table,
                   sensorizer, loops, outcome, urdf, reg, fin>>

NextAlone == ApplyInertia \/ ApplyRename

SpecAlone == InitAlone /\ [][NextAlone]_vars

----------------------------------------------------------------------------
(* Properties of the joint loop, lines 147-218 *)

\* the candidates without a child
Dangling == {k \in DOMAIN joint_info_map : joint_info_map[k].child_link_name = <<>>}

\* the step visits the candidate k of the joint loop
Visits(k) == pc = "joints" /\ k \in DOMAIN joint_info_map /\ k \notin jdone /\ k \in jdone'

\* no joint of the model comes from a candidate without a child
C1_NoJointFromDangling ==
    \A j \in DOMAIN idyn_model.joints : idyn_model.joints[j].key \notin Dangling

\* visiting a candidate without a child changes neither the model nor the
\* course of the run: the loop goes on with the remaining candidates
C1_DanglingStep ==
    \A k \in Dangling :
        Visits(k) => /\ idyn_model' = idyn_model
                     /\ pc' = "joints"
                     /\ outcome' = outcome
                     /\ log' = log

\* C1: a joint candidate whose child link name is empty is skipped: no joint
\* is added for it, the run is not aborted by it, and the candidates that
\* remain are still processed.
C1_DanglingSkipped == [](C1_NoJointFromDangling) /\ [][C1_DanglingStep]_vars

\* a run went to the export with a candidate without a child visited and
\* another candidate turned into a joint
C1_Witness ==
    /\ outcome = "Exported"
    /\ jdone \cap Dangling # {}
    /\ DOMAIN idyn_model.joints # {}

----------------------------------------------------------------------------
(* Properties of populateJointInfoMap, lines 360-419 *)

\* the positions of the history h held by a component other than the first
Others(h) == {i \in DOMAIN h : h[i] # h[1]}

\* the first component after the first registrant that registers the key
SecondRegistrant(h) == h[CHOOSE i \in Others(h) : \A j \in Others(h) : i <= j]

\* no component occurs twice in the history h
Distinct(h) == \A i, j \in DOMAIN h : h[i] = h[j] => i = j

\* C2: a key registered first by component A and later by a different
\* component B ends the traversal as the candidate with parent A and child B
\* (stated for the keys every registration of which is by another component).
C2_ParentFirstChildSecond ==
    pc = "joints" =>
        \A k \in DOMAIN reg :
            (Others(reg[k]) # {} /\ Distinct(reg[k])) =>
                /\ k \in DOMAIN joint_info_map
                /\ joint_info_map[k].parent_link_name = reg[k][1]
                /\ joint_info_map[k].child_link_name = SecondRegistrant(reg[k])

\* the parent of a candidate is the first registrant of its key, whatever
\* is registered later
C2_ParentIsFirst ==
    pc \in {"traverse", "joints"} =>
        \A k \in DOMAIN reg :
            k \in DOMAIN joint_info_map /\ joint_info_map[k].parent_link_name = reg[k][1]

\* a key registered by exactly two components, once each, ends as parent
\* the first and child the second
C2_TwoRegistrants ==
    pc = "joints" =>
        \A k \in DOMAIN reg :
            (Len(reg[k]) = 2 /\ reg[k][1] # reg[k][2]) =>
                /\ joint_info_map[k].parent_link_name = reg[k][1]
                /\ joint_info_map[k].child_link_name = reg[k][2]

----------------------------------------------------------------------------
(* Properties of the clearing step, lines 52-59 *)

\* C3: when a run after the first of the session begins to read its
\* configuration, all five tables are empty, whatever the run before left.
C3_TablesEmptied ==
    (pc = "cleared" /\ runs > 1) =>
        /\ DOMAIN joint_info_map = {}
        /\ DOMAIN link_info_map = {}
        /\ DOMAIN exported_frame_info_map = {}
        /\ DOMAIN assigned_inertias_map = {}
        /\ DOMAIN assigned_collision_geometry_map = {}

\* when the joint table was left populated, all five tables are emptied
C3_EmptiedWhenJointsLeft ==
    [][(Idle /\ pc' = "cleared" /\ DOMAIN joint_info_map # {}) =>
          /\ DOMAIN joint_info_map' = {}
          /\ DOMAIN link_info_map' = {}
          /\ DOMAIN exported_frame_info_map' = {}
          /\ DOMAIN assigned_inertias_map' = {}
          /\ DOMAIN assigned_collision_geometry_map' = {}]_vars

----------------------------------------------------------------------------
(* Properties of computeSpatialInertiafromCreo, lines 328-358 *)

\* the call returned, and the link has a configured override
OverrideApplied ==
    /\ fout # <<>>
    /\ fin.op = "inertia"
    /\ fin.link_name \in DOMAIN assigned_inertias_map

\* C4: for a link with a configured diagonal override the tensor built has
\* the configured xx, yy, zz on its diagonal and zero in all six off-diagonal
\* entries, for every CAD tensor and every scale.
C4_OverrideIsDiagonal ==
    OverrideApplied =>
        \A i, j \in 1..3 :
            fout[1].inertia[i][j] =
                IF i = j THEN assigned_inertias_map[fin.link_name][i] ELSE 0

\* the diagonal of the tensor built is the configured one, and the entries
\* off the diagonal are those of the CAD, scaled
C4_OverrideReplacesDiagonalOnly ==
    OverrideApplied =>
        \A i, j \in 1..3 :
            fout[1].inertia[i][j] =
                IF i = j THEN assigned_inertias_map[fin.link_name][i]
                ELSE fin.part.tensor[i][j] * scale[i] * scale[j]

----------------------------------------------------------------------------
(* Properties of getRenameElementFromConfig, lines 660-672 *)

\* the rename table of the document; empty when the document has none
RenameTable(cfg) == IF IsDefined(cfg.rename) THEN cfg.rename[1] ELSE EmptyMap

\* no name a table renames to is itself renamed to another name
Closed(t) == \A k \in DOMAIN t : t[k] \in DOMAIN t => t[t[k]] = t[k]

\* the two calls returned
Renamed == fout # <<>> /\ fin.op = "rename"

\* C5 as stated: for every rename table and every name, renaming the result
\* of a renaming returns it unchanged.
C5_Idempotent == Renamed => fout[2] = fout[1]

\* C5: renaming is idempotent for every rename table in which no target of
\* a rename is itself a key renamed to a different name.
C5_IdempotentOnClosed ==
    (Renamed /\ Closed(RenameTable(config))) => fout[2] = fout[1]

\* a name the closed table renames to another name, renamed twice
C5_Witness ==
    /\ Renamed
    /\ Closed(RenameTable(config))
    /\ fin.name \in DOMAIN RenameTable(config)
    /\ fout[1] # fin.name
    /\ fout[1] \notin DOMAIN RenameTable(config)
    /\ fout[2] = fout[1]

----------------------------------------------------------------------------
(* Properties of the failure of addJoint, lines 203-217 *)

\* the name under which the candidate k is added
JointNameOf(k) ==
    getRenameElementFromConfig(
        config, JointName(joint_info_map[k].parent_link_name,
                          joint_info_map[k].child_link_name))

\* the candidate k has both endpoints, reaches the call of addJoint (line 203
\* or 212), and the call fails
AddJointFails(k) ==
    /\ joint_info_map[k].child_link_name # <<>>
    /\ joint_info_map[k].type = "Revolute" =>
          /\ getRotationAxisFromPart(
                 link_info_map[joint_info_map[k].parent_link_name].modelhdl,
                 joint_info_map[k].name).ret
          /\ ~CsvThrows(joints_csv_table, JointNameOf(k))
    /\ ~addJointOk(idyn_model,
                   getRenameElementFromConfig(config, joint_info_map[k].parent_link_name),
                   getRenameElementFromConfig(config, joint_info_map[k].child_link_name),
                   JointNameOf(k))

\* the visit of a candidate for which addJoint fails ends the run there: the
\* name of the joint is reported and the model is left as it was
C6_FailureStep ==
    \A k \in DOMAIN joint_info_map :
        (Visits(k) /\ AddJointFails(k)) =>
            /\ pc' = "done"
            /\ outcome' = "JointFailed"
            /\ <<"FAILED TO ADD JOINT", JointNameOf(k)>> \in log'
            /\ idyn_model' = idyn_model
            /\ jdone' = jdone \cup {k}

\* a run ended by a failed addJoint has attached no frame and has not
\* invoked the exporter
C6_NothingAfterFailure ==
    outcome = "JointFailed" =>
        /\ pc = "done"
        /\ DOMAIN idyn_model.frames = {}
        /\ sdone = 0 /\ fdone = {} /\ edone = {}
        /\ urdf = <<>>
        /\ <<"Urdf created successfully!", <<>>>> \notin log
        /\ <<"Error exporting the urdf", <<>>>> \notin log
        /\ <<"Model is not valid!", <<>>>> \notin log
        /\ \A j \in DOMAIN idyn_model.joints : idyn_model.joints[j].key \in jdone

\* C6: when addJoint fails for a Revolute or a Fixed candidate the run stops
\* at that joint: its name is reported, no later candidate is added, no
\* sensor or exported frame is attached and the exporter is not invoked.
C6_JointFailureStops == [](C6_NothingAfterFailure) /\ [][C6_FailureStep]_vars

\* the visited candidates with both endpoints that are no joint of the model
FailedCandidates ==
    {k \in jdone \cap DOMAIN joint_info_map :
        /\ joint_info_map[k].child_link_name # <<>>
        /\ \A j \in DOMAIN idyn_model.joints : idyn_model.joints[j].key # k}

\* a run stopped at a Fixed candidate after a joint had been added, with
\* candidates left unvisited
C6_Witness ==
    /\ outcome = "JointFailed"
    /\ \E k \in FailedCandidates : joint_info_map[k].type = "Fixed"
    /\ DOMAIN idyn_model.joints # {}
    /\ DOMAIN joint_info_map \ jdone # {}

\* the same for a Revolute candidate
C6_WitnessRevolute ==
    /\ outcome = "JointFailed"
    /\ \E k \in FailedCandidates : joint_info_map[k].type = "Revolute"
    /\ DOMAIN idyn_model.joints # {}
    /\ DOMAIN joint_info_map \ jdone # {}

----------------------------------------------------------------------------
(* Properties of the frame loops, lines 227-270 *)

\* the frame name is attached to the link for the entry `from`
Attached(mdl, name, link, from) ==
    /\ name \in DOMAIN mdl.frames
    /\ mdl.frames[name] = [link |-> link, from |-> from]

\* the step neither changes the model nor leaves the frame loops, and warns
SkippedWith(warning) ==
    /\ idyn_model' = idyn_model
    /\ warning \in log'
    /\ pc' = "frames"
    /\ outcome' = outcome

\* what the visit of the next sensor does
C7_SensorStep ==
    (pc = "frames" /\ sdone' = sdone + 1) =>
        LET s == sensorizer.sensors[sdone + 1]
        IN  /\ (s.exportFrameInURDF /\ s.linkName \notin DOMAIN idyn_model.links) =>
                  SkippedWith(<<"Failed to add additional frame", s.exportedFrameName>>)
            /\ (/\ s.exportFrameInURDF
                /\ s.linkName \in DOMAIN idyn_model.links
                /\ ~isFrameNameUsed(idyn_model, s.exportedFrameName)) =>
                  Attached(idyn_model', s.exportedFrameName, s.linkName,
                           <<"sensor", sdone + 1>>)

\* what the visit of an FT sensor does
C7_FTSensorStep ==
    \A n \in DOMAIN sensorizer.ft_sensors :
        (pc = "frames" /\ n \notin fdone /\ n \in fdone') =>
            LET ft == sensorizer.ft_sensors[n]
            IN  /\ (ft.exportFrameInURDF /\ n \notin DOMAIN idyn_model.joints) =>
                      SkippedWith(<<"Failed to add additional frame, ftsensor is not in the model",
                                    ft.sensorName>>)
                /\ (/\ ft.exportFrameInURDF
                    /\ n \in DOMAIN idyn_model.joints
                    /\ ~isFrameNameUsed(idyn_model, ft.exportedFrameName)) =>
                      Attached(idyn_model', ft.exportedFrameName,
                               idyn_model.joints[n].parent, <<"ft", n>>)

\* what the visit of an entry of the exported-frame table does
C7_ExportedFrameStep ==
    \A k \in DOMAIN exported_frame_info_map :
        (pc = "frames" /\ k \notin edone /\ k \in edone') =>
            LET info == exported_frame_info_map[k]
            IN  /\ info.frameReferenceLink \notin DOMAIN idyn_model.links =>
                      SkippedWith(<<"Failed to add additional frame, link is not in the model",
                                    info.frameReferenceLink>>)
                /\ (/\ info.frameReferenceLink \in DOMAIN idyn_model.links
                    /\ ~isFrameNameUsed(idyn_model, info.exportedFrameName)) =>
                      Attached(idyn_model', info.exportedFrameName,
                               info.frameReferenceLink, <<"exported", k>>)

\* the frame loops end in the exporter only, with every entry visited and
\* every frame attached on the way kept
C7_FramesStep ==
    pc = "frames" =>
        /\ \A f \in DOMAIN idyn_model.frames :
              f \in DOMAIN idyn_model'.frames /\ idyn_model'.frames[f] = idyn_model.frames[f]
        /\ pc' # "frames" =>
              /\ outcome' \in {"Exported", "ExportFailed"}
              /\ sdone = Len(sensorizer.sensors)
              /\ fdone = DOMAIN sensorizer.ft_sensors
              /\ edone = DOMAIN exported_frame_info_map

\* C7: a sensor naming an absent link, an FT sensor naming an absent joint or
\* an exported frame naming an absent reference link is skipped with a
\* warning, alone: every other entry whose reference exists is attached
\* (unless its frame name is in use already), and the exporter is reached.
C7_MissingReferenceSkipped ==
    [][C7_SensorStep /\ C7_FTSensorStep /\ C7_ExportedFrameStep /\ C7_FramesStep]_vars

\* an exported run in which one entry of each kind was skipped for its
\* absent reference and one entry of each kind was attached
C7_Witness ==
    /\ outcome = "Exported"
    /\ <<"Failed to add additional frame", <<"i", "m", "u", "0">>>> \in log
    /\ <<"Failed to add additional frame, ftsensor is not in the model", <<"f", "t", "0">>>> \in log
    /\ <<"Failed to add additional frame, link is not in the model", <<"g", "h", "o", "s", "t">>>> \in log
    /\ Attached(idyn_model, <<"i", "m", "u">>, <<"b", "a", "s", "e">>, <<"sensor", 2>>)
    /\ Attached(idyn_model, <<"f", "t">>, <<"b", "a", "s", "e">>, <<"ft", <<"j", "_", "a", "b">>>>)
    /\ Attached(idyn_model, <<"t", "o", "o", "l">>, <<"b", "a", "s", "e">>, <<"exported", ST>>)
    /\ DOMAIN idyn_model.frames = {<<"i", "m", "u">>, <<"f", "t">>, <<"t", "o", "o", "l">>}

----------------------------------------------------------------------------
(* Properties of configuration errors, lines 29-33 and 276-282 *)

\* the document lacks the robot name or any source of the base link name
RequiredKeyMissing(cfg) ==
    \/ ~IsDefined(cfg.robotName)
    \/ ~IsDefined(cfg.root) /\ ~IsDefined(Sub(cfg.rename, RootSentinel))

\* the run has constructed nothing: no component was traversed and the
\* model has no link
NothingConstructed == ncomp = 0 /\ DOMAIN idyn_model.links = {}

\* a run whose document cannot be loaded ends at once with nothing constructed
C8_LoadFailureAborts ==
    outcome = "LoadFailed" => (pc = "done" /\ NothingConstructed /\ urdf = <<>>)

\* C8: a run whose document cannot be loaded, or whose document lacks a
\* required key (robot name, base link name), aborts before any link is
\* added to the link table or to the model.
C8_ConfigErrorFatal ==
    /\ C8_LoadFailureAborts
    /\ (pc \in {"cleared", "traverse", "joints", "frames", "done"}
        /\ outcome # "LoadFailed"
        /\ RequiredKeyMissing(config)) => NothingConstructed

----------------------------------------------------------------------------
(* Properties of the optional keys, lines 61-75, 181 and 537-548 *)

\* the optional keys the document lacks
AbsentOptionalKeys(cfg) == {k \in OptionalKeys : ~IsDefined(cfg[k])}

\* the run of the loaded document was ended by the exception of yaml-cpp for
\* a node that cannot be converted
RaisedOnKey == outcome = "BadConversion"

\* C9: whatever subset of the optional keys the document lacks, no accessor
\* on the path of the run raises: the run is not ended by an exception for
\* an absent key.
C9_AbsentOptionalKeysNeverRaise ==
    AbsentOptionalKeys(config) # {} => ~RaisedOnKey

\* the only absent key that ends a run by an exception is forcelowercase
C9_OnlyForceLowerCaseRaises ==
    RaisedOnKey => "forcelowercase" \in AbsentOptionalKeys(config)

----------------------------------------------------------------------------
(* Properties of the blanket export of user frames, lines 432-445 *)

\* the step traverses a component, past the resolution of its link frame,
\* with the blanket export enabled
BlanketStep ==
    /\ pc = "traverse"
    /\ ncomp' = ncomp + 1
    /\ outcome' # "TransformFailed"
    /\ exportAllUseradded

\* the coordinate system c of the traversed component is registered by the
\* step under its name plus the suffix, with the renamed link as reference
RegisteredByBlanket(c) ==
    /\ c \in DOMAIN exported_frame_info_map'
    /\ exported_frame_info_map'[c].exportedFrameName = c \o Suffix
    /\ exported_frame_info_map'[c].frameReferenceLink =
          getRenameElementFromConfig(config, component_handle'[1].name)

\* the coordinate systems of the traversed component not registered before
Unregistered ==
    {c \in Range(component_handle'[1].csys) : c \notin DOMAIN exported_frame_info_map}

\* C10 as stated: with the blanket export enabled, every coordinate system
\* of a traversed component whose name does not carry the fixed-joint marker
\* and is not registered yet is registered under its name plus the suffix
\* with the renamed link as reference; those that carry the marker are not.
C10_UnmarkedRegistered ==
    [][BlanketStep =>
          \A c \in Unregistered :
              IF HasMarker(c) THEN c \notin DOMAIN exported_frame_info_map'
              ELSE RegisteredByBlanket(c)]_vars

\* C10: with the blanket export enabled, every coordinate system of a
\* traversed component whose name carries the marker SCSYS (the ones that
\* are also fixed-joint candidates) and is not registered yet is registered
\* under its name plus the suffix with the renamed link as reference; those
\* without the marker are not registered, and entries registered before are
\* left as they were.
C10_MarkedRegistered ==
    [][BlanketStep =>
          /\ \A c \in Unregistered :
                IF HasMarker(c) THEN RegisteredByBlanket(c)
                ELSE c \notin DOMAIN exported_frame_info_map'
          /\ \A c \in DOMAIN exported_frame_info_map :
                /\ c \in DOMAIN exported_frame_info_map'
                /\ exported_frame_info_map'[c] = exported_frame_info_map[c]]_vars

\* component LA traversed with the blanket export enabled: XSCSYST is
\* registered with the suffix on the renamed link, CSYS is not registered
C10_Witness ==
    /\ pc = "traverse"
    /\ exportAllUseradded
    /\ component_handle = <<PartA>>
    /\ ST \in DOMAIN exported_frame_info_map
    /\ exported_frame_info_map[ST].exportedFrameName = ST \o Suffix
    /\ exported_frame_info_map[ST].frameReferenceLink = <<"b", "a", "s", "e">>
    /\ CSYS \notin DOMAIN exported_frame_info_map

----------------------------------------------------------------------------
(* Properties of the joint-limits table, lines 186-201 *)

\* the candidate k is a Revolute one with both endpoints whose axis is found
\* and whose final joint name labels no row of the table
LimitsRowMissing(k) ==
    /\ joint_info_map[k].child_link_name # <<>>
    /\ joint_info_map[k].type = "Revolute"
    /\ getRotationAxisFromPart(
           link_info_map[joint_info_map[k].parent_link_name].modelhdl,
           joint_info_map[k].name).ret
    /\ JointNameOf(k) \notin DOMAIN joints_csv_table

\* the visit of such a candidate ends the run there, by the exception of
\* GetCell, with the model left as it was
C11_MissingRowStep ==
    \A k \in DOMAIN joint_info_map :
        (Visits(k) /\ LimitsRowMissing(k)) =>
            /\ pc' = "done"
            /\ outcome' = "OutOfRange"
            /\ idyn_model' = idyn_model
            /\ JointNameOf(k) \notin DOMAIN idyn_model'.joints
            /\ urdf' = <<>>

\* a run ended by that exception has attached no frame and written no file,
\* and every joint of its model comes from a candidate visited before
C11_NothingAfterMissingRow ==
    outcome = "OutOfRange" =>
        /\ pc = "done"
        /\ DOMAIN idyn_model.frames = {}
        /\ sdone = 0 /\ fdone = {} /\ edone = {}
        /\ urdf = <<>>
        /\ <<"Urdf created successfully!", <<>>>> \notin log
        /\ \A j \in DOMAIN idyn_model.joints : idyn_model.joints[j].key \in jdone

\* C11: when the final name of a Revolute joint has no row in the
\* joint-limits table the run aborts: the joint is not added, no later joint
\* or frame is added, and the run produces no model file.
C11_MissingRowAborts == [](C11_NothingAfterMissingRow) /\ [][C11_MissingRowStep]_vars

\* a run stopped in the joint loop by the missing row of j_ab, after another
\* joint had been added and with candidates left unvisited
C11_Witness ==
    /\ outcome = "OutOfRange"
    /\ <<"j", "_", "a", "b">> \notin DOMAIN joints_csv_table
    /\ \E k \in FailedCandidates :
          joint_info_map[k].type = "Revolute" /\ JointNameOf(k) = <<"j", "_", "a", "b">>
    /\ DOMAIN idyn_model.joints # {}
    /\ DOMAIN joint_info_map \ jdone # {}

----------------------------------------------------------------------------
(* Properties of the reversal of the rotation axis, lines 172-186 *)

\* the positions that delimit the names of the scalar s: before its first
\* token, at every separator, after its last token
Delimiters(s) == {0, Len(s) + 1} \cup {i \in DOMAIN s : s[i] = ","}

\* the joint names configured under reverseRotationAxis; none when absent
ConfiguredReversed(cfg) ==
    LET s == Scalar(cfg.reverseRotationAxis)
        d == Delimiters(s)
        adjacent == {p \in d \X d :
                        p[1] < p[2] /\ \A z \in d : ~(p[1] < z /\ z < p[2])}
    IN  {SubSeq(s, p[1] + 1, p[2] - 1) : p \in adjacent} \ {<<>>}

\* the axis the CAD reports for the joint j of the model, in its parent part
ReportedAxis(j) ==
    getRotationAxisFromPart(
        link_info_map[joint_info_map[idyn_model.joints[j].key].parent_link_name].modelhdl,
        idyn_model.joints[j].key).axis

RevoluteJoints == {j \in DOMAIN idyn_model.joints : idyn_model.joints[j].type = "Revolute"}

\* C12: the axis of every Revolute joint of the model is the negation of the
\* axis reported for the parent part exactly when the final name of the joint
\* is one of the names configured under reverseRotationAxis; otherwise, and
\* when the key is absent, it is the axis as reported.
C12_ReversedIffConfigured ==
    \A j \in RevoluteJoints :
        idyn_model.joints[j].axis =
            IF j \in ConfiguredReversed(config)
            THEN Negated(ReportedAxis(j)) ELSE ReportedAxis(j)

\* the axis is negated exactly when the final name occurs anywhere in the
\* scalar of reverseRotationAxis
C12_ReversedIffFound ==
    \A j \in RevoluteJoints :
        idyn_model.joints[j].axis =
            IF Find(Scalar(config.reverseRotationAxis), j) # npos
            THEN Negated(ReportedAxis(j)) ELSE ReportedAxis(j)

\* a joint whose name is configured is reversed, and with the key absent no
\* joint is reversed
C12_ConfiguredAreReversed ==
    \A j \in RevoluteJoints :
        /\ j \in ConfiguredReversed(config) =>
              idyn_model.joints[j].axis = Negated(ReportedAxis(j))
        /\ ~IsDefined(config.reverseRotationAxis) =>
              idyn_model.joints[j].axis = ReportedAxis(j)

----------------------------------------------------------------------------
(* Claim C13: options that the document of a run leaves out *)

\* the options of the run have been read (lines 61-75 have run)
OptionsRead ==
    \/ pc \in {"traverse", "joints", "frames"}
    \/ pc = "done" /\ outcome \notin {"none", "LoadFailed", "NoFeatures"}

AbsentIsDefault(node, member, default) == ~IsDefined(node) => member = default

\* C13: in any run whose document does not define scale, the scale used by the
\* run is the default (1,1,1), whatever an earlier run defined; likewise
\* originXYZ, originRPY and exportAllUseradded.
C13_AbsentOptionIsDefault ==
    OptionsRead =>
        /\ AbsentIsDefault(config.scale, scale, DefaultScale)
        /\ AbsentIsDefault(config.originXYZ, originXYZ, DefaultOrigin)
        /\ AbsentIsDefault(config.originRPY, originRPY, DefaultOrigin)
        /\ AbsentIsDefault(config.exportAllUseradded, exportAllUseradded, FALSE)

\* what does hold: an option the document defines is the one used, and in the
\* first run an option left out is the default
C13_DefinedOptionIsUsed ==
    OptionsRead =>
        /\ IsDefined(config.scale) => scale = config.scale[1]
        /\ IsDefined(config.originXYZ) => originXYZ = config.originXYZ[1]
        /\ IsDefined(config.originRPY) => originRPY = config.originRPY[1]
        /\ IsDefined(config.exportAllUseradded)
              => exportAllUseradded = config.exportAllUseradded[1]

C13_AbsentIsDefaultInFirstRun ==
    (OptionsRead /\ runs = 1) =>
        /\ AbsentIsDefault(config.scale, scale, DefaultScale)
        /\ AbsentIsDefault(config.originXYZ, originXYZ, DefaultOrigin)
        /\ AbsentIsDefault(config.originRPY, originRPY, DefaultOrigin)
        /\ AbsentIsDefault(config.exportAllUseradded, exportAllUseradded, FALSE)

----------------------------------------------------------------------------
(* Claim C14: a key registered by a third component, lines 382-389, 410-417 *)

\* the candidate of key k has both endpoints
Complete(k) == k \in DOMAIN joint_info_map /\ joint_info_map[k].child_link_name # <<>>

\* this step, one more component registers the key k, once; every registrant
\* of the key is another component, and this one is neither the parent nor
\* the child of the candidate
ThirdRegistration(k) ==
    /\ Complete(k)
    /\ k \in DOMAIN reg /\ k \in DOMAIN reg'
    /\ Len(reg'[k]) = Len(reg[k]) + 1
    /\ Distinct(reg'[k])
    /\ reg'[k][Len(reg'[k])] \notin {joint_info_map[k].parent_link_name,
                                     joint_info_map[k].child_link_name}

\* C14: when a key that already has parent and child is registered by a
\* third component, the parent and the child of the candidate are left as
\* they were.
C14_ThirdRegistrationStep ==
    \A k \in DOMAIN joint_info_map :
        ThirdRegistration(k) =>
            /\ k \in DOMAIN joint_info_map'
            /\ joint_info_map'[k].parent_link_name = joint_info_map[k].parent_link_name
            /\ joint_info_map'[k].child_link_name = joint_info_map[k].child_link_name

C14_ThirdRegistrationRejected == [][C14_ThirdRegistrationStep]_vars

\* what does hold: the third component becomes the child, the parent stays,
\* and the step reports nothing but the warnings of the component itself
C14_ThirdRegistrationOverwritesStep ==
    \A k \in DOMAIN joint_info_map :
        ThirdRegistration(k) =>
            /\ joint_info_map'[k].parent_link_name = joint_info_map[k].parent_link_name
            /\ joint_info_map'[k].child_link_name = reg'[k][Len(reg'[k])]
            /\ log' \ log \subseteq RenameWarn(config, component_handle'[1].name)
                                     \cup {<<"is NOT physically consistent!",
                                              component_handle'[1].name>>}
                                     \cup PartWarn(component_handle'[1])
                                     \cup ExportWarn(exported_frame_info_map, config,
                                                     exportAllUseradded,
                                                     component_handle'[1])

C14_ThirdRegistrationOverwrites == [][C14_ThirdRegistrationOverwritesStep]_vars

\* a run in which a key was registered by three components emitted the tree
C14_EmittedAfterThird ==
    /\ outcome = "Exported"
    /\ \E k \in DOMAIN reg : Len(reg[k]) >= 3 /\ Distinct(reg[k])

----------------------------------------------------------------------------
(* Claim C15: a key registered twice by the same component *)

\* C15: in every state of the joint table, a candidate with a child has a
\* child that differs from its parent; a second registration of the key by
\* the component that registered it first never completes the candidate.
C15_ChildDiffersFromParent ==
    \A k \in DOMAIN joint_info_map :
        Complete(k) =>
            joint_info_map[k].child_link_name # joint_info_map[k].parent_link_name

\* what does hold: the child is the parent exactly when the last registrant of
\* the key is its first registrant again
C15_ChildIsParentIffSameRegistrant ==
    pc \in {"traverse", "joints"} =>
        \A k \in DOMAIN joint_info_map :
            Complete(k) =>
                (joint_info_map[k].child_link_name = joint_info_map[k].parent_link_name
                    <=> reg[k][Len(reg[k])] = reg[k][1])

\* a candidate whose child is its parent never becomes a joint: addJoint
\* refuses it and the run ends there
C15_SelfCandidateStopsRun ==
    \A j \in DOMAIN idyn_model.joints :
        idyn_model.joints[j].parent # idyn_model.joints[j].child

----------------------------------------------------------------------------
(* Claim C16: the shape of the model handed to the exporter *)

\* the run has passed the model to exportModelToUrdf (line 301)
HandedToExporter == pc = "done" /\ outcome \in {"Exported", "ExportFailed"}

\* the model without the joint j
WithoutJoint(mdl, j) ==
    [mdl EXCEPT !.joints = [k \in DOMAIN mdl.joints \ {j} |-> mdl.joints[k]]]

EndpointsAreLinks(mdl) ==
    \A j \in DOMAIN mdl.joints :
        mdl.joints[j].parent \in DOMAIN mdl.links /\ mdl.joints[j].child \in DOMAIN mdl.links

\* no two joints connect the same pair of links, in either direction
NoParallelJoints(mdl) ==
    \A j, k \in DOMAIN mdl.joints :
        {mdl.joints[j].parent, mdl.joints[j].child}
            = {mdl.joints[k].parent, mdl.joints[k].child} => j = k

\* no joint closes a loop: without it, its two ends are not connected
Acyclic(mdl) ==
    \A j \in DOMAIN mdl.joints :
        mdl.joints[j].child \notin Reachable(WithoutJoint(mdl, j), {mdl.joints[j].parent})

\* C16: whenever a run hands the assembled model to the exporter, the model
\* is a tree: both endpoints of every joint are links of the model, no two
\* joints connect the same pair of links, and the joints contain no cycle.
C16_ExportedModelIsTree ==
    HandedToExporter =>
        /\ EndpointsAreLinks(idyn_model)
        /\ NoParallelJoints(idyn_model)
        /\ Acyclic(idyn_model)

\* what does hold: the endpoints of every joint are links, no joint connects
\* a link to itself and no two joints connect the same pair of links
C16_EndpointsAndPairs ==
    /\ EndpointsAreLinks(idyn_model)
    /\ NoParallelJoints(idyn_model)
    /\ \A j \in DOMAIN idyn_model.joints :
           idyn_model.joints[j].parent # idyn_model.joints[j].child

\* a model with a loop of joints was written to the file
C16_LoopExported == outcome = "Exported" /\ ~Acyclic(idyn_model)

====
